---- MODULE Spec2Model ----
(***************************************************************************)
(* Model of bookkeeper's SQLiteRepository (repository/sqlite_repository.py) *)
(* for a Category-shaped model class {name: str, parent: int | None, pk}.   *)
(* The table is the set of rows SQLite holds; rowid assignment, column      *)
(* affinity, str() formatting and SQL string literals are modelled by what  *)
(* they do.  Text is a sequence of one-character strings.                   *)
(***************************************************************************)
EXTENDS Integers, Sequences, FiniteSets, TLC

\* ------------------------------------------------------------------ bounds
\* number of successful add calls per constructed repository
MaxAdds == 3
\* number of rows the table holds
MaxRows == 2
\* number of records in the list given to import_data
MaxRecs == 3

\* ------------------------------------------------------------------ values
\* A Python / SQLite scalar: None (NULL), an int, or a text.
NoneV == [k |-> "null", i |-> 0, s |-> <<>>]
IntV(n) == [k |-> "int", i |-> n, s |-> <<>>]
TextV(t) == [k |-> "text", i |-> 0, s |-> t]

\* values a caller puts in the fields of a record (well typed for the model)
TextVals == { TextV(<<"7">>), TextV(<<"o", "'", "k">>) }
IntVals == { NoneV, IntV(12) }

Digit == <<"0", "1", "2", "3", "4", "5", "6", "7", "8", "9">>

RECURSIVE NatToStr(_)
NatToStr(n) == IF n < 10 THEN <<Digit[n + 1]>>
               ELSE NatToStr(n \div 10) \o <<Digit[(n % 10) + 1]>>

\* Python str(v) as used by the f-string of update
PyStr(v) == CASE v.k = "null" -> <<"N", "o", "n", "e">>
              [] v.k = "int" -> IF v.i < 0 THEN <<"-">> \o NatToStr(0 - v.i)
                                ELSE NatToStr(v.i)
              [] OTHER -> v.s

DigitVal(c) == CHOOSE d \in 0..9 : Digit[d + 1] = c
IsDigit(c) == \E d \in 0..9 : Digit[d + 1] = c
AllDigits(t) == Len(t) > 0 /\ \A j \in 1..Len(t) : IsDigit(t[j])

RECURSIVE StrToNat(_)
StrToNat(t) == IF Len(t) = 0 THEN 0
               ELSE 10 * StrToNat(SubSeq(t, 1, Len(t) - 1)) + DigitVal(t[Len(t)])

\* SQLite: does a text look like an integer literal
LooksInteger(t) == \/ AllDigits(t)
                   \/ Len(t) > 1 /\ t[1] = "-" /\ AllDigits(Tail(t))

TextToInt(t) == IF t[1] = "-" THEN 0 - StrToNat(Tail(t)) ELSE StrToNat(t)

\* ------------------------------------------------------------------ schema
\* declared non-pk fields of the model class, in declaration order
Fields == <<"name", "parent">>

\* str() of each field's annotation: str(str) and str(int | None)
Annotation == [name |-> <<"<", "c", "l", "a", "s", "s", " ", "'", "s", "t", "r", "'", ">">>,
               parent |-> <<"i", "n", "t", " ", "|", " ", "N", "o", "n", "e">>]

\* val.find(sub) != -1
Contains(val, sub) == \E j \in 1..(Len(val) - Len(sub) + 1) :
                          SubSeq(val, j, j + Len(sub) - 1) = sub

type_check_Integer(val) ==
    IF Contains(val, <<"i", "n", "t", "e", "g", "e", "r">>) THEN "INTEGER" ELSE "TEXT"

type_check(val) == IF Contains(val, <<"i", "n", "t">>) THEN "INTEGER" ELSE "TEXT"

\* declared type of the column of the j-th field
ColType(j) == type_check(Annotation[Fields[j]])

\* SQLite column affinity applied to a value on its way into a column
Affinity(ctype, v) ==
    CASE v.k = "null" -> v
      [] ctype = "INTEGER" /\ v.k = "text" /\ LooksInteger(v.s) -> IntV(TextToInt(v.s))
      [] ctype = "TEXT" /\ v.k = "int" -> TextV(PyStr(v))
      [] OTHER -> v

\* ------------------------------------------------------------------ storage
Max(S) == CHOOSE m \in S : \A x \in S : x <= m
Pks(t) == { r.pk : r \in t }

\* rowid SQLite gives to an INSERT that names no pk (INTEGER PRIMARY KEY
\* without AUTOINCREMENT): one more than the largest rowid in use, 1 if none
NextRowid_Count(t) == Cardinality(t) + 1

NextRowid_FromZero(t) == IF t = {} THEN 0 ELSE Max(Pks(t)) + 1

NextRowid(t) == IF t = {} THEN 1 ELSE Max(Pks(t)) + 1

\* rows in b-tree (rowid) order: what SELECT * iterates
RECURSIVE ScanOrder_Desc(_)
ScanOrder_Desc(t) == IF t = {} THEN <<>>
                     ELSE LET r == CHOOSE x \in t : \A y \in t : x.pk >= y.pk
                          IN <<r>> \o ScanOrder_Desc(t \ {r})

RECURSIVE ScanOrder(_)
ScanOrder(t) == IF t = {} THEN <<>>
                ELSE LET r == CHOOSE x \in t : \A y \in t : x.pk <= y.pk
                     IN <<r>> \o ScanOrder(t \ {r})

\* the tuple SELECT * yields for a row: declared columns, then pk
RowTuple(r) == r.vals \o <<IntV(r.pk)>>

\* SELECT * FROM table
SelectAll(t) == [j \in 1..Cardinality(t) |-> RowTuple(ScanOrder(t)[j])]

\* SELECT * FROM table WHERE pk = key, as a sequence of tuples
SelectByPk_NoWhere(t, key) == SelectAll(t)

SelectByPk(t, key) == SelectAll({ r \in t : r.pk = key })

\* INSERT INTO table (names) VALUES (?...) with bound values; rid is the
\* physical identity of the new row (not visible to the program)
InsertRow(t, values, rid) ==
    t \cup { [rid |-> rid, pk |-> NextRowid(t),
              vals |-> [j \in 1..Len(Fields) |-> Affinity(ColType(j), values[j])]] }

\* DELETE FROM table WHERE pk = key
DeleteRows_Above(t, key) == { r \in t : r.pk <= key }

DeleteRows(t, key) == { r \in t : r.pk # key }

\* a quoted SQL string literal '...' built from text s: a doubled quote is
\* one quote character; a lone quote ends the literal early and what follows
\* does not parse (exact for the texts used here)
RECURSIVE LiteralOk(_)
LiteralOk(s) == IF Len(s) = 0 THEN TRUE
                ELSE IF s[1] # "'" THEN LiteralOk(Tail(s))
                ELSE Len(s) > 1 /\ s[2] = "'" /\ LiteralOk(Tail(Tail(s)))

RECURSIVE LiteralText(_)
LiteralText(s) == IF Len(s) = 0 THEN <<>>
                  ELSE IF s[1] # "'" THEN <<s[1]>> \o LiteralText(Tail(s))
                  ELSE <<"'">> \o LiteralText(Tail(Tail(s)))

\* UPDATE table SET f = 'str(v)', ... WHERE pk = key; texts[j] is str() of
\* the j-th field's value
UpdateRows_NoWhere(t, texts, key) ==
    { [r EXCEPT !.vals = [j \in 1..Len(Fields) |->
                            Affinity(ColType(j), TextV(LiteralText(texts[j])))]] : r \in t }

UpdateRows(t, texts, key) ==
    { IF r.pk = key
      THEN [r EXCEPT !.vals = [j \in 1..Len(Fields) |->
                                Affinity(ColType(j), TextV(LiteralText(texts[j])))]]
      ELSE r : r \in t }

\* ------------------------------------------------------------------ objects
\* an in-memory model instance; haspk = FALSE is an object with no pk
\* attribute at all (e.g. the int passed by test_cannot_add_without_pk)
NewObj == [haspk |-> TRUE, pk |-> 0, attrs |-> [name |-> TextV(<<>>), parent |-> NoneV]]

MkObj(pk, n, p) == [haspk |-> TRUE, pk |-> pk, attrs |-> [name |-> n, parent |-> p]]

\* getattr(obj, attr)
GetAttr(o, attr) == IF attr = "pk" THEN IntV(o.pk) ELSE o.attrs[attr]

\* add's guard: getattr(obj, 'pk', None) != 0
pk_filled_DefaultZero(o) == o.haspk /\ o.pk # 0

pk_filled(o) == ~o.haspk \/ o.pk # 0

\* update's guard: obj.pk == 0
pk_unknown_IsNone(o) == FALSE

pk_unknown(o) == o.pk = 0
\* names = (*fields, 'pk'); obj = cls(); setattr(obj, names[i], tuple_obj[i])
FromTuple(tup) ==
    [haspk |-> TRUE, pk |-> tup[Len(Fields) + 1].i,
     attrs |-> [f \in {Fields[j] : j \in 1..Len(Fields)} |->
                  tup[CHOOSE j \in 1..Len(Fields) : Fields[j] = f]]]

\* results handed back to the caller
RNone == [kind |-> "none"]
RInt(n) == [kind |-> "int", v |-> n]
RObj(o) == [kind |-> "obj", v |-> o]
RList(l) == [kind |-> "list", v |-> l]

\* get(pk): fetchone() of the select, None when there is no row
get(t, pk) == LET rows == SelectByPk(t, pk)
              IN IF Len(rows) = 0 THEN RNone ELSE RObj(FromTuple(rows[1]))

\* a filter: None, or a dict from attribute names to required values
WNone == [none |-> TRUE, d |-> <<>>]
WDict(d) == [none |-> FALSE, d |-> d]

\* all(getattr(obj, attr) == where[attr] for attr in where.keys())
Matches_Any(o, d) == \E a \in DOMAIN d : GetAttr(o, a) = d[a]

Matches(o, d) == \A a \in DOMAIN d : GetAttr(o, a) = d[a]

RECURSIVE Filter(_, _)
Filter(objs, d) == IF Len(objs) = 0 THEN <<>>
                   ELSE (IF Matches(Head(objs), d) THEN <<Head(objs)>> ELSE <<>>)
                        \o Filter(Tail(objs), d)

\* get_all(where)
get_all(t, w) == LET tuples == SelectAll(t)
                     objs == [j \in 1..Len(tuples) |-> FromTuple(tuples[j])]
                 IN IF w.none THEN objs ELSE Filter(objs, w.d)

\* ------------------------------------------------------------------ inputs
PkArgs == 0..MaxAdds
NoPkObj == [NewObj EXCEPT !.haspk = FALSE]
AddArgs == { MkObj(pk, n, p) : pk \in {0, 1}, n \in TextVals, p \in IntVals }
             \cup { NoPkObj }
UpdateArgs == { MkObj(pk, n, p) : pk \in PkArgs, n \in TextVals, p \in IntVals }
                \cup { NoPkObj }

WhereKeys == {"name", "parent", "pk"}
WhereVals == [name |-> { TextV(<<"7">>) },
              parent |-> { NoneV, IntV(12) },
              pk |-> { IntV(2) }]
WhereArgs == { WNone } \cup
             { WDict(d) : d \in UNION { { f \in [K -> UNION { WhereVals[a] : a \in WhereKeys }] :
                                             \A a \in K : f[a] \in WhereVals[a] } :
                                        K \in SUBSET WhereKeys } }

\* ------------------------------------------------------------------ state
VARIABLES
    table,   \* rows of the model's table in the store file
    issued,  \* pks returned by add since construction, in call order
    added,   \* records added since construction while only add was called
    pure,    \* no update or delete call since construction
    op,      \* the last operation called
    arg,     \* the record passed to the last add / update, as it was passed
    obj,     \* that record as the call left it
    key,     \* the pk passed to the last get / delete
    where,   \* the filter passed to the last get_all
    ret,     \* what the last operation returned
    err,     \* the exception the last operation raised, "none" if it returned
    prev,    \* the table as it was when the last operation was called
    nstmt,   \* cur.execute calls the last operation made
    leaked,  \* connections the last operation opened and had not closed on exit
    \* one store file holding the tables of several model types
    store,   \* the rows of each model type's table in the file
    repos,   \* the model types a repository instance exists for
    earlier, \* those with an instance older than the type's last construction
    sop,     \* the last call on the file: its name and its instance's type
    sprev,   \* the store as it was when that call was made
    dropped, \* the tables that call dropped and created
    \* TreeView.import_data
    data,    \* the list passed to import_data
    values,  \* the work queue
    seen,    \* unique_id -> the item created for it
    kids,    \* item -> its child rows in order; 0 is the invisible root item
    tpc,     \* where import_data is: "idle", "loop" or "done"
    requeued, \* some record has been put back on the queue
    odd      \* the loop has made an odd number of iterations

repoVars == <<table, issued, added, pure, op, arg, obj, key, where, ret, err, prev, nstmt,
              leaked>>
storeVars == <<store, repos, earlier, sop, sprev, dropped>>
treeVars == <<data, values, seen, kids, tpc, requeued, odd>>
vars == <<repoVars, storeVars, treeVars>>

\* the model types Presenter keeps in main.db
ModelTypes == {"Expense", "Category"}

\* no call has been made on a shared store file
StoreIdle ==
    /\ store = [c \in ModelTypes |-> {}]
    /\ repos = {}
    /\ earlier = {}
    /\ sop = [name |-> "none", cls |-> "Category"]
    /\ sprev = [c \in ModelTypes |-> {}]
    /\ dropped = {}

\* import_data has not been called
TreeIdle ==
    /\ data = <<>>
    /\ values = <<>>
    /\ seen = <<>>
    /\ kids = <<>>
    /\ tpc = "idle"
    /\ requeued = FALSE
    /\ odd = FALSE

\* __init__: DROP TABLE IF EXISTS; CREATE TABLE IF NOT EXISTS
RepoFresh ==
    /\ table = {}
    /\ issued = <<>>
    /\ added = <<>>
    /\ pure = TRUE
    /\ op = "init"
    /\ arg = NewObj
    /\ obj = NewObj
    /\ key = 0
    /\ where = WNone
    /\ ret = RNone
    /\ err = "none"
    /\ prev = {}
    /\ nstmt = 2
    /\ leaked = 0

Init ==
    /\ RepoFresh
    /\ StoreIdle
    /\ TreeIdle

Construct ==
    /\ table' = {}
    /\ issued' = <<>>
    /\ added' = <<>>
    /\ pure' = TRUE
    /\ op' = "init"
    /\ arg' = NewObj
    /\ obj' = NewObj
    /\ key' = 0
    /\ where' = WNone
    /\ ret' = RNone
    /\ err' = "none"
    /\ prev' = table
    /\ nstmt' = 2
    /\ leaked' = 0
    /\ UNCHANGED <<storeVars, treeVars>>

\* add(obj) with a filled or missing pk: ValueError before any statement
AddRejected(o) ==
    /\ pk_filled(o)
    /\ op' = "add" /\ arg' = o /\ obj' = o /\ key' = 0 /\ where' = WNone
    /\ ret' = RNone /\ err' = "ValueError" /\ nstmt' = 0 /\ leaked' = 0
    /\ prev' = table
    /\ UNCHANGED <<table, issued, added, pure>>
    /\ UNCHANGED <<storeVars, treeVars>>

\* add(obj) with pk == 0: INSERT, then obj.pk = cur.lastrowid
AddStored(o) ==
    /\ ~pk_filled(o)
    /\ Len(issued) < MaxAdds
    /\ Cardinality(table) < MaxRows
    /\ LET params == [j \in 1..Len(Fields) |-> GetAttr(o, Fields[j])]
           lastrowid == NextRowid(table)
           stored == [o EXCEPT !.pk = lastrowid]
       IN /\ table' = InsertRow(table, params, Len(issued) + 1)
          /\ obj' = stored
          /\ ret' = RInt(stored.pk)
          /\ issued' = Append(issued, stored.pk)
          /\ added' = IF pure THEN Append(added, stored) ELSE <<>>
    /\ op' = "add" /\ arg' = o /\ key' = 0 /\ where' = WNone
    /\ err' = "none" /\ nstmt' = 1 /\ leaked' = 0
    /\ prev' = table
    /\ UNCHANGED pure
    /\ UNCHANGED <<storeVars, treeVars>>

Add(o) == AddRejected(o) \/ AddStored(o)

Get(pk) ==
    /\ op' = "get" /\ key' = pk /\ arg' = NewObj /\ obj' = NewObj /\ where' = WNone
    /\ ret' = get(table, pk)
    /\ err' = "none" /\ nstmt' = 2 /\ leaked' = 0
    /\ prev' = table
    /\ UNCHANGED <<table, issued, added, pure>>
    /\ UNCHANGED <<storeVars, treeVars>>

GetAll(w) ==
    /\ op' = "get_all" /\ where' = w /\ arg' = NewObj /\ obj' = NewObj /\ key' = 0
    /\ ret' = RList(get_all(table, w))
    /\ err' = "none" /\ nstmt' = 2 /\ leaked' = 0
    /\ prev' = table
    /\ UNCHANGED <<table, issued, added, pure>>
    /\ UNCHANGED <<storeVars, treeVars>>

\* update(obj): obj.pk of an object without pk raises AttributeError, pk == 0
\* raises ValueError; otherwise PRAGMA, then the UPDATE built with an f-string
Update(o) ==
    /\ op' = "update" /\ arg' = o /\ obj' = o /\ key' = 0 /\ where' = WNone
    /\ ret' = RNone
    /\ prev' = table
    /\ pure' = FALSE
    /\ added' = <<>>
    /\ UNCHANGED issued
    /\ UNCHANGED <<storeVars, treeVars>>
    /\ LET texts == [j \in 1..Len(Fields) |-> PyStr(GetAttr(o, Fields[j]))]
       IN IF ~o.haspk
          THEN err' = "AttributeError" /\ nstmt' = 0 /\ leaked' = 0 /\ UNCHANGED table
          ELSE IF pk_unknown(o)
          THEN err' = "ValueError" /\ nstmt' = 0 /\ leaked' = 0 /\ UNCHANGED table
          ELSE IF \E j \in 1..Len(Fields) : ~LiteralOk(texts[j])
          THEN \* the statement raises inside the with block, which commits or
               \* rolls back but does not close: con.close() after it is skipped
               err' = "OperationalError" /\ nstmt' = 2 /\ leaked' = 1 /\ UNCHANGED table
          ELSE /\ err' = "none" /\ nstmt' = 2 /\ leaked' = 0
               /\ table' = UpdateRows(table, texts, o.pk)

\* delete(pk): KeyError when get(pk) is None, else PRAGMA and DELETE
Delete(pk) ==
    /\ op' = "delete" /\ key' = pk /\ arg' = NewObj /\ obj' = NewObj /\ where' = WNone
    /\ ret' = RNone
    /\ prev' = table
    /\ pure' = FALSE
    /\ added' = <<>>
    /\ UNCHANGED issued
    /\ UNCHANGED <<storeVars, treeVars>>
    /\ IF get(table, pk) = RNone
       THEN err' = "KeyError" /\ nstmt' = 2 /\ leaked' = 0 /\ UNCHANGED table
       ELSE err' = "none" /\ nstmt' = 4 /\ leaked' = 0 /\ table' = DeleteRows(table, pk)

Next ==
    \/ Construct
    \/ \E o \in AddArgs : Add(o)
    \/ \E pk \in PkArgs : Get(pk)
    \/ \E w \in WhereArgs : GetAll(w)
    \/ \E o \in UpdateArgs : Update(o)
    \/ \E pk \in PkArgs : Delete(pk)

Spec == Init /\ [][Next]_vars

\* ------------------------------------------------ a repository holding rows
\* the table after the adds of os[1], ..., os[n] on a fresh repository
RECURSIVE Fill(_, _)
Fill(os, n) ==
    IF n = 0 THEN {}
    ELSE InsertRow(Fill(os, n - 1),
                   [j \in 1..Len(Fields) |-> GetAttr(os[n], Fields[j])], n)

\* the state right after MaxAdds successful adds on a fresh repository
InitRows ==
    \E os \in [1..MaxAdds -> { o \in AddArgs : ~pk_filled(o) }] :
        LET pks == [j \in 1..MaxAdds |-> NextRowid(Fill(os, j - 1))]
            objs == [j \in 1..MaxAdds |-> [os[j] EXCEPT !.pk = pks[j]]]
        IN /\ table = Fill(os, MaxAdds)
           /\ issued = pks
           /\ added = objs
           /\ pure = TRUE
           /\ op = "add"
           /\ arg = os[MaxAdds]
           /\ obj = objs[MaxAdds]
           /\ key = 0
           /\ where = WNone
           /\ ret = RInt(pks[MaxAdds])
           /\ err = "none"
           /\ prev = Fill(os, MaxAdds - 1)
           /\ nstmt = 1
           /\ leaked = 0
           /\ StoreIdle
           /\ TreeIdle

\* the calls that add no row
NextRows ==
    \/ \E pk \in PkArgs : Get(pk)
    \/ \E w \in WhereArgs : GetAll(w)
    \/ \E o \in UpdateArgs : Update(o)
    \/ \E pk \in PkArgs : Delete(pk)

SpecRows == InitRows /\ [][NextRows]_vars

\* ------------------------------------------- several model types, one file
\* DROP TABLE IF EXISTS <cls.__name__>; CREATE TABLE IF NOT EXISTS <cls.__name__>
DropAndCreate_File(st, c) == [x \in DOMAIN st |-> {}]

DropAndCreate(st, c) == [st EXCEPT ![c] = {}]

\* records given to the repositories of the file (every type is given the
\* Category shape)
StoreAddArgs == { MkObj(0, TextV(<<"7">>), p) : p \in IntVals }
StoreUpdateArgs == { MkObj(pk, TextV(<<"7">>), p) : pk \in PkArgs, p \in IntVals }

\* rows held by the tables of the types in S
RECURSIVE RowCount(_, _)
RowCount(st, S) == IF S = {} THEN 0
                   ELSE LET c == CHOOSE x \in S : TRUE
                        IN Cardinality(st[c]) + RowCount(st, S \ {c})

\* Presenter.__init__ has made its first repository
InitStore ==
    /\ RepoFresh
    /\ TreeIdle
    /\ store = [c \in ModelTypes |-> {}]
    /\ repos = {"Expense"}
    /\ earlier = {}
    /\ sop = [name |-> "init", cls |-> "Expense"]
    /\ sprev = [c \in ModelTypes |-> {}]
    /\ dropped = {"Expense"}

\* SQLiteRepository(db_file, c)
StoreConstruct(c) ==
    /\ store' = DropAndCreate(store, c)
    /\ repos' = repos \cup {c}
    /\ earlier' = IF c \in repos THEN earlier \cup {c} ELSE earlier
    /\ sop' = [name |-> "init", cls |-> c]
    /\ sprev' = store
    /\ dropped' = {c}
    /\ UNCHANGED <<repoVars, treeVars>>

\* add(o) on an instance for type c
StoreAdd(c, o) ==
    /\ c \in repos
    /\ RowCount(store, ModelTypes) < MaxRows
    /\ NextRowid(store[c]) <= MaxAdds
    /\ store' = IF pk_filled(o) THEN store
                ELSE [store EXCEPT ![c] =
                        InsertRow(@, [j \in 1..Len(Fields) |-> GetAttr(o, Fields[j])],
                                  NextRowid(@))]
    /\ sop' = [name |-> "add", cls |-> c]
    /\ sprev' = store
    /\ dropped' = {}
    /\ UNCHANGED <<repos, earlier, repoVars, treeVars>>

\* get(pk) and get_all(w) on an instance for type c
StoreRead(c) ==
    /\ c \in repos
    /\ sop' = [name |-> "read", cls |-> c]
    /\ sprev' = store
    /\ dropped' = {}
    /\ UNCHANGED <<store, repos, earlier, repoVars, treeVars>>

\* update(o) on an instance for type c
StoreUpdate(c, o) ==
    /\ c \in repos
    /\ LET texts == [j \in 1..Len(Fields) |-> PyStr(GetAttr(o, Fields[j]))]
       IN store' = IF \/ ~o.haspk
                       \/ pk_unknown(o)
                       \/ \E j \in 1..Len(Fields) : ~LiteralOk(texts[j])
                    THEN store
                    ELSE [store EXCEPT ![c] = UpdateRows(@, texts, o.pk)]
    /\ sop' = [name |-> "update", cls |-> c]
    /\ sprev' = store
    /\ dropped' = {}
    /\ UNCHANGED <<repos, earlier, repoVars, treeVars>>

\* delete(pk) on an instance for type c
StoreDelete(c, pk) ==
    /\ c \in repos
    /\ store' = IF get(store[c], pk) = RNone THEN store
                ELSE [store EXCEPT ![c] = DeleteRows(@, pk)]
    /\ sop' = [name |-> "delete", cls |-> c]
    /\ sprev' = store
    /\ dropped' = {}
    /\ UNCHANGED <<repos, earlier, repoVars, treeVars>>

NextStore ==
    \/ \E c \in ModelTypes : StoreConstruct(c)
    \/ \E c \in ModelTypes : \E o \in StoreAddArgs : StoreAdd(c, o)
    \/ \E c \in ModelTypes : StoreRead(c)
    \/ \E c \in ModelTypes : \E o \in StoreUpdateArgs : StoreUpdate(c, o)
    \/ \E c \in ModelTypes : \E pk \in PkArgs : StoreDelete(c, pk)

SpecStore == InitStore /\ [][NextStore]_vars

\* ------------------------------------------------- TreeView.import_data
\* Presenter's tree_data entry for a category: the name is the text of its id
Rec(uid, pid) == [unique_id |-> uid, parent_id |-> pid, short_name |-> TextV(NatToStr(uid))]

\* lists of n records with distinct unique_ids, in any order, each parent_id
\* 0 (root), a unique_id of the list, or n + 1 (the unique_id of no record)
DataLists ==
    UNION { { [j \in 1..n |-> Rec(ids[j], pids[j])] :
                ids \in { f \in [1..n -> 1..n] : \A a \in 1..n : \A b \in 1..n :
                                                     f[a] = f[b] => a = b },
                pids \in [1..n -> 0..(n + 1)] } : n \in 0..MaxRecs }

\* parent.appendRow(row): the new item becomes the last child row of parent
appendRow_First(k, parent, item) ==
    [x \in DOMAIN k \cup {item} |->
        IF x = parent THEN <<item>> \o k[parent] ELSE IF x = item THEN <<>> ELSE k[x]]

appendRow(k, parent, item) ==
    [x \in DOMAIN k \cup {item} |->
        IF x = parent THEN Append(k[parent], item) ELSE IF x = item THEN <<>> ELSE k[x]]

\* values.append(value)
append_Left(q, v) == <<v>> \o q

append(q, v) == Append(q, v)

\* import_data has run up to its loop: the model is cleared, seen is empty
\* and the queue holds the records (by position in data) in list order
InitTree ==
    /\ RepoFresh
    /\ StoreIdle
    /\ data \in DataLists
    /\ values = [j \in 1..Len(data) |-> j]
    /\ seen = <<>>
    /\ kids = [x \in {0} |-> <<>>]
    /\ tpc = IF Len(data) = 0 THEN "done" ELSE "loop"
    /\ requeued = FALSE
    /\ odd = FALSE

\* an iteration that finds the parent: root for parent_id 0, else seen[pid]
Attach ==
    /\ tpc = "loop"
    /\ LET v == Head(values)
           pid == data[v].parent_id
       IN /\ pid = 0 \/ pid \in DOMAIN seen
          /\ LET parent == IF pid = 0 THEN 0 ELSE seen[pid]
                 grown == appendRow(kids, parent, v)
                 \* parent.child(parent.rowCount() - 1)
                 last == grown[parent][Len(grown[parent])]
             IN /\ kids' = grown
                /\ seen' = [u \in DOMAIN seen \cup {data[v].unique_id} |->
                              IF u = data[v].unique_id THEN last ELSE seen[u]]
          /\ values' = Tail(values)
          /\ tpc' = IF Tail(values) = <<>> THEN "done" ELSE "loop"
    /\ odd' = ~odd
    /\ UNCHANGED <<data, requeued, repoVars, storeVars>>

\* an iteration whose parent_id is not in seen: back on the queue, continue
Requeue ==
    /\ tpc = "loop"
    /\ LET v == Head(values)
           pid == data[v].parent_id
       IN /\ pid # 0 /\ pid \notin DOMAIN seen
          /\ values' = append(Tail(values), v)
    /\ requeued' = TRUE
    /\ odd' = ~odd
    /\ UNCHANGED <<data, seen, kids, tpc, repoVars, storeVars>>

NextTree == Attach \/ Requeue

\* the while loop keeps iterating while the queue is not empty
SpecTree == InitTree /\ [][NextTree]_vars /\ WF_vars(NextTree)

\* get_children(item, tree_list, level): the rows below item, depth first,
\* each with the text of its first column and str(level + 1)
RECURSIVE get_children_SameLevel(_, _, _)
get_children_SameLevel(k, item, level) ==
    LET RECURSIVE Rows(_)
        Rows(i) == IF i > Len(k[item]) THEN <<>>
                   ELSE <<[Name |-> PyStr(data[k[item][i]].short_name),
                           level |-> NatToStr(level)]>>
                        \o get_children_SameLevel(k, k[item][i], level)
                        \o Rows(i + 1)
    IN Rows(1)

RECURSIVE get_children(_, _, _)
get_children(k, item, level) ==
    LET lvl == level + 1
        RECURSIVE Rows(_)
        Rows(i) == IF i > Len(k[item]) THEN <<>>
                   ELSE <<[Name |-> PyStr(data[k[item][i]].short_name),
                           level |-> NatToStr(lvl)]>>
                        \o get_children(k, k[item][i], lvl)
                        \o Rows(i + 1)
    IN Rows(1)

\* ------------------------------------------------------------------ claims
AddOk == op = "add" /\ err = "none"

\* C1: add of a record with pk == 0 returns a strictly positive pk that no
\* row of the table had, sets the record's pk to it, and get of that pk then
\* returns a record equal to the added one, field for field.
C1_AddThenGet ==
    AddOk => /\ arg.pk = 0
             /\ ret.v > 0
             /\ ret.v \notin Pks(prev)
             /\ obj.pk = ret.v
             /\ obj.attrs = arg.attrs
             /\ get(table, obj.pk) = RObj(obj)

C1_Witness == AddOk /\ prev # {} /\ obj.attrs.parent = IntV(12)
              /\ obj.attrs.name = TextV(<<"7">>)

\* C2: add of an object whose pk is nonzero or missing raises ValueError and
\* leaves the table as it was.
C2_AddRejected ==
    (op = "add" /\ (~arg.haspk \/ arg.pk # 0)) =>
        err = "ValueError" /\ table = prev

C2_Witness == op = "add" /\ ~arg.haspk /\ err = "ValueError" /\ prev # {}

\* C3: delete of a pk that no row has raises KeyError and leaves the table
\* as it was.
C3_DeleteMissing ==
    (op = "delete" /\ key \notin Pks(prev)) =>
        err = "KeyError" /\ table = prev

C3_Witness == op = "delete" /\ key \notin Pks(prev) /\ prev # {} /\ err = "KeyError"

\* C4: update of a record with pk == 0 raises ValueError before any
\* statement is executed, and the table is left as it was.
C4_UpdateUnknownPk ==
    (op = "update" /\ arg.haspk /\ arg.pk = 0) =>
        err = "ValueError" /\ nstmt = 0 /\ table = prev

C4_Witness == op = "update" /\ arg.haspk /\ arg.pk = 0 /\ prev # {}
              /\ err = "ValueError"

\* C5: after update(r) with r.pk the pk of an existing row, get(r.pk)
\* returns a record equal to r, for every field value add accepts.
C5_UpdateThenGet ==
    (op = "update" /\ arg.haspk /\ arg.pk \in Pks(prev)) =>
        err = "none" /\ get(table, arg.pk) = RObj(arg)

\* C6: get_all(where) is get_all() restricted, in order, to the records
\* equal to the filter on every key; get_all({}) and get_all(None) return
\* every row.
C6_FilteredScan ==
    op = "get_all" =>
        LET full == get_all(table, WNone)
            Sat(o) == \A a \in DOMAIN where.d : GetAttr(o, a) = where.d[a]
        IN /\ ret.v = SelectSeq(full, Sat)
           /\ (where.none \/ DOMAIN where.d = {}) =>
                 /\ Len(ret.v) = Cardinality(table)
                 /\ { ret.v[j].pk : j \in 1..Len(ret.v) } = Pks(table)

C6_Witness == /\ op = "get_all" /\ ~where.none
              /\ Cardinality(DOMAIN where.d) = 2
              /\ Len(ret.v) = 1 /\ Cardinality(table) = 2

\* C7: after N adds on a freshly constructed repository and nothing else
\* changing it, get_all() returns the N added records in the order added.
C7_RoundTrip ==
    pure => /\ Len(added) = Len(issued)
            /\ get_all(table, WNone) = added

C7_Witness == pure /\ Len(added) >= 2 /\ added[1].attrs # added[2].attrs

\* C8: after a successful delete(pk), get(pk) returns None and get_all()
\* holds no record with that pk.
C8_DeleteThenGet ==
    (op = "delete" /\ err = "none") =>
        /\ key \in Pks(prev)
        /\ get(table, key) = RNone
        /\ \A j \in 1..Len(get_all(table, WNone)) : get_all(table, WNone)[j].pk # key

C8_Witness == op = "delete" /\ err = "none" /\ table # {}

C10_NeverReissued ==
    /\ Len(issued) > 0 => issued[1] = 1
    /\ \A j \in 1..Len(issued) : \A l \in 1..Len(issued) : j < l => issued[j] < issued[l]

\* C10 amended: the first add returns 1 and every add returns a pk greater
\* than the pk of every row in the table at the time of the call.
C10_AboveStoredPks ==
    /\ Len(issued) > 0 => issued[1] = 1
    /\ AddOk => \A p \in Pks(prev) : ret.v > p

C10_Witness == AddOk /\ Len(issued) = 2 /\ prev # {}

\* C11: update of a record whose nonzero pk no row has completes without
\* error and leaves the table as it was.
C11_UpdateMissing ==
    (op = "update" /\ arg.haspk /\ arg.pk # 0 /\ arg.pk \notin Pks(prev)) =>
        err = "none" /\ table = prev

\* C15: when an operation returns or raises, no connection it opened is
\* still open.
C15_ConnectionsReleased == leaked = 0

\* C17: update with the record get(pk) has just returned leaves the table
\* as it was, so get(pk) returns an equal record afterwards.
C17_UpdateOfGetIsNoOp ==
    (op = "update" /\ arg.haspk /\ get(prev, arg.pk) = RObj(arg)) =>
        table = prev /\ get(table, arg.pk) = RObj(arg)

\* C19: get and get_all leave the table and the next pk add will assign as
\* they were, and get of a pk no row has returns None without raising.
C19_ReadOnly ==
    (op \in {"get", "get_all"}) =>
        /\ table = prev
        /\ NextRowid(table) = NextRowid(prev)
        /\ err = "none"
        /\ (op = "get" /\ key \notin Pks(prev)) => ret = RNone
        /\ (op = "get" /\ key \in Pks(prev)) => ret.kind = "obj" /\ ret.v.pk = key

C19_Witness == op = "get" /\ key \notin Pks(prev) /\ prev # {} /\ ret = RNone

C12_DestructiveConstruction ==
    /\ sop.name = "init" =>
          /\ get_all(store[sop.cls], WNone) = <<>>
          /\ \A c \in ModelTypes \ {sop.cls} : store[c] = sprev[c]
          /\ dropped = {sop.cls}
    /\ sop.name \in {"add", "read", "update", "delete"} =>
          /\ dropped = {}
          /\ \A c \in ModelTypes \ {sop.cls} : store[c] = sprev[c]
          /\ Cardinality(Pks(sprev[sop.cls]) \ Pks(store[sop.cls])) <= 1

C12_Witness ==
    /\ sop.name = "init" /\ sop.cls \in earlier
    /\ sprev[sop.cls] # {}
    /\ \E c \in ModelTypes \ {sop.cls} : store[c] # {}

\* what the tree builder claims say about an input list d
IdxOf(d, uid) == CHOOSE j \in 1..Len(d) : d[j].unique_id = uid
ParentsPresent(d) ==
    \A j \in 1..Len(d) : d[j].parent_id = 0 \/ \E l \in 1..Len(d) : d[l].unique_id = d[j].parent_id
RECURSIVE ReachesRoot(_, _, _)
ReachesRoot(d, j, fuel) ==
    \/ d[j].parent_id = 0
    \/ fuel > 0 /\ ReachesRoot(d, IdxOf(d, d[j].parent_id), fuel - 1)
WellFormed(d) == ParentsPresent(d) /\ \A j \in 1..Len(d) : ReachesRoot(d, j, Len(d))
RECURSIVE LevelOf(_, _)
LevelOf(d, j) == IF d[j].parent_id = 0 THEN 1 ELSE 1 + LevelOf(d, IdxOf(d, d[j].parent_id))
\* the item a record belongs under: the root, or the item of its parent record
ParentItem(d, j) == IF d[j].parent_id = 0 THEN 0 ELSE IdxOf(d, d[j].parent_id)
Occurs(q, x) == Cardinality({ i \in 1..Len(q) : q[i] = x })
RECURSIVE Span(_, _)
Span(a, b) == IF a > b THEN <<>> ELSE <<a>> \o Span(a + 1, b)

\* C13: for well-formed input the flattened tree has one row per record,
\* at level 1 under the root and one more than its parent's level
\* otherwise, under the item of its parent, whatever the order of the list.
C13_LevelsByParent ==
    (tpc = "done" /\ WellFormed(data)) =>
        LET rows == get_children(kids, 0, 0)
        IN /\ Len(rows) = Len(data)
           /\ \A j \in 1..Len(data) :
                 /\ Cardinality({ i \in 1..Len(rows) :
                                    rows[i].Name = PyStr(data[j].short_name) }) = 1
                 /\ \A i \in 1..Len(rows) :
                       rows[i].Name = PyStr(data[j].short_name)
                          => rows[i].level = NatToStr(LevelOf(data, j))
                 /\ Occurs(kids[ParentItem(data, j)], j) = 1

C13_Witness ==
    /\ tpc = "done"
    /\ data = <<Rec(2, 1), Rec(1, 0), Rec(3, 1)>>
    /\ get_children(kids, 0, 0) = << [Name |-> <<"1">>, level |-> <<"1">>],
                                     [Name |-> <<"3">>, level |-> <<"2">>],
                                     [Name |-> <<"2">>, level |-> <<"2">>] >>

\* C14: when a record's nonzero parent_id is no record's unique_id,
\* import_data stops with an orphan error instead of re-queuing for ever.
C14_OrphanReported ==
    (tpc = "loop" /\ ~ParentsPresent(data)) ~> (tpc = "error")

\* C16: for well-formed input the loop ends with an empty queue and every
\* record attached exactly once, under the root for parent_id 0 and under
\* its parent record's item otherwise.
C16_TerminatesAttached ==
    /\ (tpc = "loop" /\ WellFormed(data)) ~> (tpc = "done")
    /\ [](tpc = "done" =>
            /\ values = <<>>
            /\ \A j \in 1..Len(data) :
                  /\ Occurs(kids[ParentItem(data, j)], j) = 1
                  /\ \A x \in DOMAIN kids : x # ParentItem(data, j) => Occurs(kids[x], j) = 0)

C16_Witness == tpc = "done" /\ WellFormed(data) /\ requeued /\ Len(data) >= 3

\* C20: for well-formed input the root's children are in list order and the
\* children of the record at position p are those listed after p, in list
\* order, followed by those listed before p, in list order; when every
\* parent is listed before its children nothing is re-queued.
C20_SiblingOrder ==
    LET n == Len(data)
        ChildOf(uid) == [j \in 1..n |-> data[j].parent_id = uid]
        Pick(q, uid) == LET T(j) == ChildOf(uid)[j] IN SelectSeq(q, T)
        ParentsFirst == \A j \in 1..n : data[j].parent_id # 0 => IdxOf(data, data[j].parent_id) < j
    IN WellFormed(data) =>
          /\ tpc = "done" =>
                /\ kids[0] = Pick(Span(1, n), 0)
                /\ \A p \in 1..n :
                      kids[p] = Pick(Span(p + 1, n), data[p].unique_id)
                                  \o Pick(Span(1, p - 1), data[p].unique_id)
          /\ ParentsFirst => ~requeued

C20_Witness ==
    /\ tpc = "done" /\ WellFormed(data) /\ requeued
    /\ \E p \in 1..Len(data) : Len(kids[p]) = 2 /\ kids[p][1] > p /\ kids[p][2] < p

====
